---- MODULE Spec2Model ----
(***************************************************************************)
(* Model of the dendrite hook registry (internal/hooks/hooks.go) and of    *)
(* the SQL tracing layer (internal/sqlutil/trace.go).                      *)
(*                                                                         *)
(* Go strings are modelled as sequences of one-character strings, so that  *)
(* prefix tests, concatenation and formatting are computed, not assumed.   *)
(***************************************************************************)
EXTENDS Integers, Sequences, FiniteSets, TLC

(***************************************************************************)
(* Bounds of the model.                                                    *)
(***************************************************************************)
MaxCalls == 4       \* Attach and Run calls made in one behaviour
MaxOpens == 2       \* OpenWithWriter calls made in one behaviour
MaxRows == 2        \* rows a result set holds

(***************************************************************************)
(* The hook registry: sets the calls draw their arguments from.            *)
(***************************************************************************)
Threads == {"t1", "t2"}
NoThread == "none"

\* hooks.go:26. "other_kind" stands for a kind outside the known set.
KindNewEvent == "new_event"
Kinds == {KindNewEvent, "other_kind"}

\* Callbacks handed to Attach. "cbA" appends its payload to the sequence
\* `seen` (the callback of the spec's scenario); "cbB" has no effect.
Callbacks == {"cbA", "cbB"}
Payloads == {"X", "Y"}

VARIABLES
    enabled,     \* hooks.go:32   the package flag
    hookMap,     \* hooks.go:30   kind -> sequence of callbacks
    hookMu,      \* hooks.go:31   the thread holding the mutex, or NoThread
    pc,          \* per thread: where it is in Run / Attach
    kind,        \* per thread: the `kind` argument of the call in progress
    data,        \* per thread: the `data` argument of Run
    callback,    \* per thread: the `callback` argument of Attach
    cbs,         \* per thread: Run's local `cbs` (hooks.go:45)
    idx,         \* per thread: callbacks of `cbs` invoked so far by the range loop
    ran,         \* per thread: the invocations <<callback, payload>> made by the Run in progress
    seen,        \* the sequence callback "cbA" appends payloads to
    attached,    \* history: per kind, the callbacks of the Attach calls that found the flag set, in call order
    dropped,     \* history: the <<kind, callback>> of the Attach calls that found the flag clear
    runLog,      \* history: the Run calls that found the flag set, in call order
    droppedCalls, \* history: the number of Attach calls that found the flag clear
    idleRuns,    \* history: the number of Run calls that found the flag clear
    overlap,     \* history: TRUE once two calls were in progress at the same time
    fault        \* per thread: the panic its last Run raised to its caller, if any

VARIABLES
    tracingEnabled, \* trace.go:33   DENDRITE_TRACE_SQL == "1", read once at start
    dbToWriter,  \* trace.go:34   token -> Writer
    instCount,   \* trace.go:36   the token counter
    opc,         \* per thread: where it is in OpenWithWriter
    ow,          \* per thread: the Writer argument `w` of OpenWithWriter
    tmp,         \* per thread: the value of instCount loaded by instCount++
    ctxVal,      \* per thread: OpenWithWriter's local `ctxVal`
    opened,      \* history: what the successful OpenWithWriter calls returned, in return order
    owwCalls,    \* history: the number of OpenWithWriter calls made
    last,        \* the most recent call of the tracing layer: its inputs and what it did
    cursor,      \* the driver.Rows being iterated: rows fetched so far, the dest buffer
    rowLog       \* the log entries RowsNext emitted for the cursor

VARIABLES
    lastOpen     \* the most recent Open call: its inputs and what it returned

hookVars == <<enabled, hookMap, hookMu, pc, kind, data, callback, cbs, idx, ran,
              seen, attached, dropped, droppedCalls, runLog, idleRuns, overlap,
              fault>>

sqlVars == <<tracingEnabled, dbToWriter, instCount, opc, ow, tmp, ctxVal, opened,
             owwCalls, last, cursor, rowLog>>

openVars == <<lastOpen>>

vars == <<hookVars, sqlVars, openVars>>

----------------------------------------------------------------------------
(***************************************************************************)
(* Helpers.                                                                *)
(***************************************************************************)
RECURSIVE SumLen(_, _)
\* The total length of the sequences f[k], k in S.
SumLen(f, S) ==
    IF S = {} THEN 0
    ELSE LET k == CHOOSE x \in S : TRUE
         IN Len(f[k]) + SumLen(f, S \ {k})

IsPrefix(s, t) == Len(s) <= Len(t) /\ SubSeq(t, 1, Len(s)) = s

Count(s, x) == Cardinality({i \in 1..Len(s) : s[i] = x})

Busy(t) == pc[t] # "idle"

\* Attach and Run calls made so far: the recorded ones and the Attach calls
\* still in progress.
Calls == SumLen(attached, Kinds) + droppedCalls + Len(runLog) + idleRuns
         + Cardinality({t \in Threads : pc[t] \in {"attach_lock", "attach_append",
                                                    "cb_attach_lock", "cb_attach_append"}})

\* Some other thread is inside a call when thread t starts one.
Overlaps(t) == \E u \in Threads \ {t} : Busy(u)

----------------------------------------------------------------------------
(***************************************************************************)
(* Initial state: hooks.go:29-33.                                          *)
(***************************************************************************)
\* No panic: the call returned normally.
NoFault == <<>>

HooksInit ==
    /\ enabled = FALSE
    /\ hookMap = [k \in Kinds |-> <<>>]
    /\ hookMu = NoThread
    /\ pc = [t \in Threads |-> "idle"]
    /\ kind = [t \in Threads |-> KindNewEvent]
    /\ data = [t \in Threads |-> "X"]
    /\ callback = [t \in Threads |-> "cbA"]
    /\ cbs = [t \in Threads |-> <<>>]
    /\ idx = [t \in Threads |-> 0]
    /\ ran = [t \in Threads |-> <<>>]
    /\ seen = <<>>
    /\ attached = [k \in Kinds |-> <<>>]
    /\ dropped = {}
    /\ droppedCalls = 0
    /\ runLog = <<>>
    /\ idleRuns = 0
    /\ overlap = FALSE
    /\ fault = [t \in Threads |-> NoFault]

(***************************************************************************)
(* Enable: hooks.go:36-38.                                                 *)
(* The flag is written here and read by Run and Attach with no             *)
(* synchronisation: a read that races with Enable sees the flag clear or   *)
(* set, which is what the interleaving of Enable with RunBegin and         *)
(* AttachBegin gives.                                                      *)
(***************************************************************************)
\* Enable flipping the flag instead of setting it.
Enable_Toggle(t) ==
    /\ pc[t] = "idle"
    /\ enabled' = ~enabled
    /\ UNCHANGED <<hookMap, hookMu, pc, kind, data, callback, cbs, idx, ran,
                   seen, attached, dropped, droppedCalls, runLog, idleRuns, overlap>>
    /\ UNCHANGED <<fault, sqlVars, openVars>>

Enable(t) ==
    /\ pc[t] = "idle"
    /\ enabled' = TRUE
    /\ UNCHANGED <<hookMap, hookMu, pc, kind, data, callback, cbs, idx, ran,
                   seen, attached, dropped, droppedCalls, runLog, idleRuns, overlap>>
    /\ UNCHANGED <<fault, sqlVars, openVars>>

(***************************************************************************)
(* Attach: hooks.go:52-59.                                                 *)
(***************************************************************************)
\* Attach without its test of the flag.
AttachBegin_NoCheck(t, k, cb) ==
    /\ pc[t] = "idle"
    /\ Calls < MaxCalls
    /\ overlap' = (overlap \/ Overlaps(t))
    /\ pc' = [pc EXCEPT ![t] = "attach_lock"]
    /\ kind' = [kind EXCEPT ![t] = k]
    /\ callback' = [callback EXCEPT ![t] = cb]
    /\ UNCHANGED <<enabled, hookMap, hookMu, data, cbs, idx, ran, seen, attached,
                   dropped, droppedCalls, runLog, idleRuns>>
    /\ UNCHANGED <<fault, sqlVars, openVars>>

\* hooks.go:52-55: the call and its test of the flag.
AttachBegin(t, k, cb) ==
    /\ pc[t] = "idle"
    /\ Calls < MaxCalls
    /\ overlap' = (overlap \/ Overlaps(t))
    /\ IF ~enabled
       THEN /\ dropped' = dropped \cup {<<k, cb>>}
            /\ droppedCalls' = droppedCalls + 1
            /\ UNCHANGED <<pc, kind, callback>>
       ELSE /\ pc' = [pc EXCEPT ![t] = "attach_lock"]
            /\ kind' = [kind EXCEPT ![t] = k]
            /\ callback' = [callback EXCEPT ![t] = cb]
            /\ UNCHANGED <<dropped, droppedCalls>>
    /\ UNCHANGED <<enabled, hookMap, hookMu, data, cbs, idx, ran, seen, attached,
                   runLog, idleRuns>>
    /\ UNCHANGED <<fault, sqlVars, openVars>>

\* hooks.go:56: hookMu.Lock().
AttachLock(t) ==
    /\ pc[t] = "attach_lock"
    /\ hookMu = NoThread
    /\ hookMu' = t
    /\ pc' = [pc EXCEPT ![t] = "attach_append"]
    /\ UNCHANGED <<enabled, hookMap, kind, data, callback, cbs, idx, ran,
                   seen, attached, dropped, droppedCalls, runLog, idleRuns, overlap>>
    /\ UNCHANGED <<fault, sqlVars, openVars>>

\* Attach putting the callback in front of the list.
Appended_Prepend(list, cb) == <<cb>> \o list

\* Attach leaving out a callback the list already holds.
Appended_Dedup(list, cb) ==
    IF \E i \in 1..Len(list) : list[i] = cb THEN list ELSE Append(list, cb)

\* hooks.go:58: the new list of kind k.
Appended(list, cb) == Append(list, cb)

\* hooks.go:57-59: the append, then the deferred hookMu.Unlock().
AttachAppend(t) ==
    /\ pc[t] = "attach_append"
    /\ hookMu = t
    /\ hookMap' = [hookMap EXCEPT ![kind[t]] = Appended(hookMap[kind[t]], callback[t])]
    /\ attached' = [attached EXCEPT ![kind[t]] = Append(@, callback[t])]
    /\ hookMu' = NoThread
    /\ pc' = [pc EXCEPT ![t] = "idle"]
    /\ kind' = [kind EXCEPT ![t] = KindNewEvent]
    /\ callback' = [callback EXCEPT ![t] = "cbA"]
    /\ UNCHANGED <<enabled, data, cbs, idx, ran, seen, dropped, droppedCalls, runLog, idleRuns, overlap>>
    /\ UNCHANGED <<fault, sqlVars, openVars>>

(***************************************************************************)
(* Run: hooks.go:41-49, with callbacks: hooks.go:61-65.                    *)
(***************************************************************************)
\* hooks.go:41-44: the call and its test of the flag.
RunBegin(t, k, p) ==
    /\ pc[t] = "idle"
    /\ Calls < MaxCalls
    /\ overlap' = (overlap \/ Overlaps(t))
    /\ IF ~enabled
       THEN /\ idleRuns' = idleRuns + 1
            /\ UNCHANGED <<pc, kind, data, cbs, idx, ran, runLog>>
       ELSE /\ runLog' = Append(runLog, [kind |-> k, data |-> p, n |-> Len(attached[k])])
            /\ idleRuns' = idleRuns
            /\ pc' = [pc EXCEPT ![t] = "callbacks_lock"]
            /\ kind' = [kind EXCEPT ![t] = k]
            /\ data' = [data EXCEPT ![t] = p]
            /\ cbs' = [cbs EXCEPT ![t] = <<>>]
            /\ idx' = [idx EXCEPT ![t] = 0]
            /\ ran' = [ran EXCEPT ![t] = <<>>]
    /\ fault' = [fault EXCEPT ![t] = NoFault]
    /\ UNCHANGED <<enabled, hookMap, hookMu, callback, seen, attached, dropped, droppedCalls>>
    /\ UNCHANGED <<sqlVars, openVars>>

\* hooks.go:62: hookMu.Lock() in callbacks.
CallbacksLock(t) ==
    /\ pc[t] = "callbacks_lock"
    /\ hookMu = NoThread
    /\ hookMu' = t
    /\ pc' = [pc EXCEPT ![t] = "callbacks_read"]
    /\ UNCHANGED <<enabled, hookMap, kind, data, callback, cbs, idx, ran,
                   seen, attached, dropped, droppedCalls, runLog, idleRuns, overlap>>
    /\ UNCHANGED <<fault, sqlVars, openVars>>

\* callbacks returning the callbacks of every kind.
callbacks_AllKinds(k) == hookMap[k] \o hookMap[CHOOSE o \in Kinds : o # k]

\* hooks.go:64: the value callbacks(kind) returns.
callbacks(k) == hookMap[k]

\* callbacks handing the list over and clearing it.
CallbacksReturn_Consume(t) ==
    /\ pc[t] = "callbacks_read"
    /\ hookMu = t
    /\ cbs' = [cbs EXCEPT ![t] = callbacks(kind[t])]
    /\ hookMap' = [hookMap EXCEPT ![kind[t]] = <<>>]
    /\ hookMu' = NoThread
    /\ pc' = [pc EXCEPT ![t] = "run_loop"]
    /\ UNCHANGED <<enabled, kind, data, callback, idx, ran,
                   seen, attached, dropped, droppedCalls, runLog, idleRuns, overlap>>
    /\ UNCHANGED <<fault, sqlVars, openVars>>

\* callbacks returning without releasing the mutex.
CallbacksReturn_KeepLock(t) ==
    /\ pc[t] = "callbacks_read"
    /\ hookMu = t
    /\ cbs' = [cbs EXCEPT ![t] = callbacks(kind[t])]
    /\ pc' = [pc EXCEPT ![t] = "run_loop"]
    /\ UNCHANGED <<enabled, hookMap, hookMu, kind, data, callback, idx, ran,
                   seen, attached, dropped, droppedCalls, runLog, idleRuns, overlap>>
    /\ UNCHANGED <<fault, sqlVars, openVars>>

\* hooks.go:45, 63-64: cbs := callbacks(kind), with the deferred hookMu.Unlock().
CallbacksReturn(t) ==
    /\ pc[t] = "callbacks_read"
    /\ hookMu = t
    /\ cbs' = [cbs EXCEPT ![t] = callbacks(kind[t])]
    /\ hookMu' = NoThread
    /\ pc' = [pc EXCEPT ![t] = "run_loop"]
    /\ UNCHANGED <<enabled, hookMap, kind, data, callback, idx, ran,
                   seen, attached, dropped, droppedCalls, runLog, idleRuns, overlap>>
    /\ UNCHANGED <<fault, sqlVars, openVars>>

\* The body of a callback: what cb(p) does to the sequence `seen`.
CallbackBody(cb, p) == IF cb = "cbA" THEN Append(seen, p) ELSE seen

\* Run ranging over the table's list as it is now.
RangeOver_Live(t) == hookMap[kind[t]]

\* hooks.go:46: the slice the loop ranges over, `range cbs`. Its length is
\* fixed when the loop starts; an append to the table writes past it.
RangeOver(t) == cbs[t]

\* hooks.go:46-48: one iteration of the range loop, cb(data), for a callback
\* that returns and does not call the registry.
RunInvoke(t) ==
    /\ pc[t] = "run_loop"
    /\ idx[t] < Len(RangeOver(t))
    /\ RangeOver(t)[idx[t] + 1] \in Callbacks
    /\ seen' = CallbackBody(RangeOver(t)[idx[t] + 1], data[t])
    /\ ran' = [ran EXCEPT ![t] = Append(@, <<RangeOver(t)[idx[t] + 1], data[t]>>)]
    /\ idx' = [idx EXCEPT ![t] = @ + 1]
    /\ UNCHANGED <<enabled, hookMap, hookMu, pc, kind, data, callback, cbs,
                   attached, dropped, droppedCalls, runLog, idleRuns, overlap>>
    /\ UNCHANGED <<fault, sqlVars, openVars>>

\* hooks.go:46, 49: the range loop is exhausted and Run returns.
RunReturn(t) ==
    /\ pc[t] = "run_loop"
    /\ idx[t] >= Len(RangeOver(t))
    /\ pc' = [pc EXCEPT ![t] = "idle"]
    /\ kind' = [kind EXCEPT ![t] = KindNewEvent]
    /\ data' = [data EXCEPT ![t] = "X"]
    /\ cbs' = [cbs EXCEPT ![t] = <<>>]
    /\ idx' = [idx EXCEPT ![t] = 0]
    /\ ran' = [ran EXCEPT ![t] = <<>>]
    /\ UNCHANGED <<enabled, hookMap, hookMu, callback, seen, attached, dropped, droppedCalls, runLog, idleRuns, overlap>>
    /\ UNCHANGED <<fault, sqlVars, openVars>>

(***************************************************************************)
(* Callbacks that call the registry or panic.                              *)
(***************************************************************************)
\* "cbAttach" calls hooks.Attach(KindNewEvent, cbA) and returns; "cbPanic"
\* panics with its payload.
ReentrantCallback == "cbAttach"
FaultingCallback == "cbPanic"
CallerCallbacks == {"cbA", ReentrantCallback, FaultingCallback}

\* hooks.go:47 and 52-55: cb(data) for the callback that calls Attach; the
\* call of Attach and its test of the flag, on the thread of Run.
RunInvokeReentrant(t) ==
    /\ pc[t] = "run_loop"
    /\ idx[t] < Len(RangeOver(t))
    /\ RangeOver(t)[idx[t] + 1] = ReentrantCallback
    /\ Calls < MaxCalls
    /\ ran' = [ran EXCEPT ![t] = Append(@, <<ReentrantCallback, data[t]>>)]
    /\ IF ~enabled
       THEN /\ idx' = [idx EXCEPT ![t] = @ + 1]
            /\ dropped' = dropped \cup {<<KindNewEvent, "cbA">>}
            /\ droppedCalls' = droppedCalls + 1
            /\ UNCHANGED pc
       ELSE /\ pc' = [pc EXCEPT ![t] = "cb_attach_lock"]
            /\ UNCHANGED <<idx, dropped, droppedCalls>>
    /\ UNCHANGED <<enabled, hookMap, hookMu, kind, data, callback, cbs, seen,
                   attached, runLog, idleRuns, overlap, fault>>
    /\ UNCHANGED <<sqlVars, openVars>>

\* hooks.go:56: hookMu.Lock() of the Attach the callback makes. The mutex is
\* not reentrant: the step waits for it also when t itself holds it.
CbAttachLock(t) ==
    /\ pc[t] = "cb_attach_lock"
    /\ hookMu = NoThread
    /\ hookMu' = t
    /\ pc' = [pc EXCEPT ![t] = "cb_attach_append"]
    /\ UNCHANGED <<enabled, hookMap, kind, data, callback, cbs, idx, ran, seen,
                   attached, dropped, droppedCalls, runLog, idleRuns, overlap, fault>>
    /\ UNCHANGED <<sqlVars, openVars>>

\* hooks.go:57-59 and 47: the append and the unlock of that Attach, and the
\* return of the callback to the loop.
CbAttachAppend(t) ==
    /\ pc[t] = "cb_attach_append"
    /\ hookMu = t
    /\ hookMap' = [hookMap EXCEPT ![KindNewEvent] = Appended(hookMap[KindNewEvent], "cbA")]
    /\ attached' = [attached EXCEPT ![KindNewEvent] = Append(@, "cbA")]
    /\ hookMu' = NoThread
    /\ pc' = [pc EXCEPT ![t] = "run_loop"]
    /\ idx' = [idx EXCEPT ![t] = @ + 1]
    /\ UNCHANGED <<enabled, kind, data, callback, cbs, ran, seen, dropped,
                   droppedCalls, runLog, idleRuns, overlap, fault>>
    /\ UNCHANGED <<sqlVars, openVars>>

\* Run recovering from the panic of a callback and going on with the loop.
RunInvokePanic_Recover(t) ==
    /\ pc[t] = "run_loop"
    /\ idx[t] < Len(RangeOver(t))
    /\ RangeOver(t)[idx[t] + 1] = FaultingCallback
    /\ ran' = [ran EXCEPT ![t] = Append(@, <<FaultingCallback, data[t]>>)]
    /\ idx' = [idx EXCEPT ![t] = @ + 1]
    /\ UNCHANGED <<enabled, hookMap, hookMu, pc, kind, data, callback, cbs, seen,
                   attached, dropped, droppedCalls, runLog, idleRuns, overlap, fault>>
    /\ UNCHANGED <<sqlVars, openVars>>

\* hooks.go:46-48: cb(data) panics. Run has no recover and no deferred call
\* of its own, so the panic leaves the loop and Run and reaches the caller
\* with the value the callback gave it.
RunInvokePanic(t) ==
    /\ pc[t] = "run_loop"
    /\ idx[t] < Len(RangeOver(t))
    /\ RangeOver(t)[idx[t] + 1] = FaultingCallback
    /\ fault' = [fault EXCEPT ![t] = <<"panic", data[t]>>]
    /\ pc' = [pc EXCEPT ![t] = "idle"]
    /\ kind' = [kind EXCEPT ![t] = KindNewEvent]
    /\ data' = [data EXCEPT ![t] = "X"]
    /\ cbs' = [cbs EXCEPT ![t] = <<>>]
    /\ idx' = [idx EXCEPT ![t] = 0]
    /\ ran' = [ran EXCEPT ![t] = <<>>]
    /\ UNCHANGED <<enabled, hookMap, hookMu, callback, seen, attached, dropped,
                   droppedCalls, runLog, idleRuns, overlap>>
    /\ UNCHANGED <<sqlVars, openVars>>

HooksNext ==
    \E t \in Threads :
        \/ Enable(t)
        \/ \E k \in Kinds, cb \in Callbacks : AttachBegin(t, k, cb)
        \/ AttachLock(t)
        \/ AttachAppend(t)
        \/ \E k \in Kinds, p \in Payloads : RunBegin(t, k, p)
        \/ CallbacksLock(t)
        \/ CallbacksReturn(t)
        \/ RunInvoke(t)
        \/ RunReturn(t)

----------------------------------------------------------------------------
(***************************************************************************)
(* Go strings, as sequences of characters.                                 *)
(***************************************************************************)
EmptyStr == <<>>

\* strings.HasPrefix(s, prefix)
HasPrefix(s, prefix) == Len(s) >= Len(prefix) /\ SubSeq(s, 1, Len(prefix)) = prefix

RECURSIVE Concat(_)
\* The concatenation of a sequence of strings.
Concat(ss) == IF ss = <<>> THEN <<>> ELSE Head(ss) \o Concat(Tail(ss))

Digits == <<"0", "1", "2", "3", "4", "5", "6", "7", "8", "9">>

RECURSIVE Itoa(_)
\* fmt.Sprintf("%d", n) for n >= 0: the decimal digits of n.
Itoa(n) == IF n < 10 THEN <<Digits[n + 1]>>
           ELSE Itoa(n \div 10) \o <<Digits[(n % 10) + 1]>>

(***************************************************************************)
(* Errors, Writers, contexts, statements: the inputs of the tracing layer. *)
(***************************************************************************)
NoErr == <<>>                               \* a nil error
EOF == <<"EOF">>                            \* io.EOF
ErrBadConn == <<"driver: bad connection">>  \* some error of the driver

\* Writers handed to OpenWithWriter. NilWriter is a nil Writer value; "w3"
\* is a Writer whose Safe() returns the empty string.
NilWriter == "nil"
Writers == {"w1", "w2", "w3"}

\* w.Safe(): the description a Writer returns.
Safe(w) == CASE w = "w1" -> <<"w", "1">>
             [] w = "w2" -> <<"w", "2">>
             [] OTHER -> EmptyStr

\* A context is <<>> when it holds no value under CtxDBInstance and
\* <<token>> when it holds the string `token`. The only writer of that key is
\* OpenWithWriter (trace.go:116), which stores a string.
NoTokenCtx == <<>>
WithValue(token) == <<token>>
Tokens == {Itoa(1), Itoa(2)}
Contexts == {NoTokenCtx} \cup {WithValue(k) : k \in Tokens}

SELECT_ == <<"S", "E", "L", "E", "C", "T", " ">>
Statements == {<<"S", "E", "L", "E", "C", "T", " ", "1">>, <<"s", "e", "l", "e", "c", "t", " ", "1">>, <<" ", "S", "E", "L", "E", "C", "T", " ", "1">>, <<"I", "N", "S", "E", "R", "T", " ", "t">>, <<"S", "E", "L", "E", "C", "T">>}

Args == {<<>>, <<"a">>}

\* What the underlying statement returns: rows or a result, and an error.
QueryOutcomes == {[val |-> "rows", err |-> NoErr], [val |-> "nil", err |-> ErrBadConn]}
ExecOutcomes == {[val |-> "result", err |-> NoErr], [val |-> "nil", err |-> ErrBadConn]}

\* driver.Value: a string or nil (SQL NULL).
StrValue(v) == <<"string", v>>
NilValue == <<"nil">>
Columns == <<<<"c", "1">>, <<"c", "2">>>>
Rows == {<<StrValue(<<"a">>), NilValue>>, <<StrValue(<<"b", "\"">>), StrValue(<<"a">>)>>,
         <<NilValue, NilValue>>}

(***************************************************************************)
(* The token -> Writer map (a Go map: a missing key reads as nil).         *)
(***************************************************************************)
EmptyMap == [k \in {} |-> NilWriter]

MapGet(m, k) == IF k \in DOMAIN m THEN m[k] ELSE NilWriter

MapPut(m, k, v) == [x \in (DOMAIN m) \cup {k} |-> IF x = k THEN v ELSE m[x]]

(***************************************************************************)
(* Open: trace.go:123-159.                                                 *)
(***************************************************************************)
\* config.DataSource.IsSQLite, IsPostgres: the descriptor's scheme.
IsSQLite(cs) == HasPrefix(cs, <<"f", "i", "l", "e", ":">>)

IsPostgres(cs) == HasPrefix(cs, <<"p", "o", "s", "t", "g", "r", "e", "s">>)

SQLiteDriverName == <<"s", "q", "l", "i", "t", "e", "3">>

\* ParseFileURI: the local file path of an embedded descriptor, or an error
\* for a malformed one (env.parseErr says which).
ParseFileURI(cs, env) ==
    IF env.parseErr THEN [dsn |-> EmptyStr, err |-> <<"malformed file URI">>]
    ELSE [dsn |-> SubSeq(cs, Len(<<"f", "i", "l", "e", ":">>) + 1, Len(cs)), err |-> NoErr]

ConnectionStrings == {<<"f", "i", "l", "e", ":", "a">>, <<"f", "i", "l", "e", ":">>, <<"p", "o", "s", "t", "g", "r", "e", "s", ":", "/", "/", "h">>, <<"p", "o", "s", "t", "g", "r", "e", "s", "q", "l", ":", "/", "/", "h">>,
                      <<"m", "y", "s", "q", "l", ":", "/", "/", "h">>, EmptyStr}

\* The pool sizes of a handle whose limits were never set.
PoolUnset == <<>>
Pools == {<<10, 5, 0>>, <<3, 1, 60>>, <<0, 0, 0>>}

DatabaseOptions == [ConnectionString : ConnectionStrings, Pool : Pools]

\* What the surroundings of one Open call do: whether ParseFileURI rejects
\* the descriptor and whether sql.Open fails.
OpenEnvs == [parseErr : BOOLEAN, openErr : BOOLEAN]

NoDB == [nil |-> TRUE, driverName |-> EmptyStr, dsn |-> EmptyStr, pool |-> PoolUnset]

\* trace.go:139-158: the driver name gets its suffix, sql.Open is called, and
\* the pool limits are set on the handle.
OpenDriver(name, dsn, opts, env) ==
    LET driverName == IF tracingEnabled THEN name \o <<"-", "t", "r", "a", "c", "e">> ELSE name
    IN IF env.openErr
       THEN [db |-> NoDB, err |-> <<"sql: unknown driver">>, sqlOpens |-> 1]
       ELSE [db |-> [nil |-> FALSE, driverName |-> driverName, dsn |-> dsn,
                     pool |-> IF driverName # SQLiteDriverName
                              THEN opts.Pool ELSE PoolUnset],
             err |-> NoErr, sqlOpens |-> 1]

\* Open taking every descriptor that is not embedded for a networked one.
Open_NoDefault(opts, env) ==
    LET cs == opts.ConnectionString
    IN IF IsSQLite(cs)
       THEN LET parsed == ParseFileURI(cs, env)
            IN IF parsed.err # NoErr
               THEN [db |-> NoDB, err |-> <<"ParseFileURI: %w", parsed.err>>, sqlOpens |-> 0]
               ELSE OpenDriver(SQLiteDriverName, parsed.dsn, opts, env)
       ELSE OpenDriver(<<"p", "o", "s", "t", "g", "r", "e", "s">>, cs, opts, env)

\* trace.go:123-159. sqlOpens counts the calls of sql.Open.
Open(opts, env) ==
    LET cs == opts.ConnectionString
    IN IF IsSQLite(cs)
       THEN LET parsed == ParseFileURI(cs, env)
            IN IF parsed.err # NoErr
               THEN [db |-> NoDB, err |-> <<"ParseFileURI: %w", parsed.err>>, sqlOpens |-> 0]
               ELSE OpenDriver(SQLiteDriverName, parsed.dsn, opts, env)
       ELSE IF IsPostgres(cs)
       THEN OpenDriver(<<"p", "o", "s", "t", "g", "r", "e", "s">>, cs, opts, env)
       ELSE [db |-> NoDB, err |-> <<"invalid database connection string %q", cs>>,
             sqlOpens |-> 0]

NoOpenCall == [called |-> FALSE, opts |-> CHOOSE o \in DatabaseOptions : TRUE,
               env |-> [parseErr |-> FALSE, openErr |-> FALSE],
               out |-> [db |-> NoDB, err |-> NoErr, sqlOpens |-> 0]]

OpenInit == lastOpen = NoOpenCall

\* A call Open(opts) whose surroundings behave as env says.
DoOpen(opts, env) ==
    /\ lastOpen' = [called |-> TRUE, opts |-> opts, env |-> env, out |-> Open(opts, env)]
    /\ UNCHANGED <<hookVars, sqlVars>>

(***************************************************************************)
(* The tracing layer: initial state, trace.go:33-36 and 161-164.           *)
(***************************************************************************)
NoCall == [op |-> "none", ctx |-> NoTokenCtx, query |-> EmptyStr, args |-> <<>>,
           under |-> [val |-> "nil", err |-> NoErr], underCalls |-> 0,
           passed |-> <<>>, ret |-> [val |-> "nil", err |-> NoErr],
           w |-> NilWriter, safe |-> EmptyStr, audit |-> <<>>, trace |-> <<>>]

NoCursor == [open |-> FALSE, done |-> FALSE, fetched |-> <<>>,
             dest |-> [i \in 1..Len(Columns) |-> NilValue], lastErr |-> NoErr]

\* database/sql gives a driver connection to one statement at a time: the next
\* statement runs on it once the rows of the previous one are closed.
ConnFree == ~cursor.open \/ cursor.done

SqlInit ==
    /\ tracingEnabled \in BOOLEAN
    /\ dbToWriter = EmptyMap
    /\ instCount = 0
    /\ opc = [t \in Threads |-> "idle"]
    /\ ow = [t \in Threads |-> NilWriter]
    /\ tmp = [t \in Threads |-> 0]
    /\ ctxVal = [t \in Threads |-> EmptyStr]
    /\ opened = <<>>
    /\ owwCalls = 0
    /\ last = NoCall
    /\ cursor = NoCursor
    /\ rowLog = <<>>

(***************************************************************************)
(* OpenWithWriter: trace.go:108-118.                                       *)
(***************************************************************************)
\* Descriptors and surroundings OpenWithWriter is called with.
OpenWithWriterOptions == {o \in DatabaseOptions : /\ o.Pool = <<10, 5, 0>>
                                           /\ o.ConnectionString \in {<<"f", "i", "l", "e", ":", "a">>, <<"p", "o", "s", "t", "g", "r", "e", "s", ":", "/", "/", "h">>, <<"m", "y", "s", "q", "l", ":", "/", "/", "h">>}}
OpenWithWriterEnvs == OpenEnvs

\* OpenWithWriter advancing the counter before it looks at Open's error.
OpenWithWriterCall_CountFirst(t, opts, env, w) ==
    /\ opc[t] = "idle"
    /\ owwCalls < MaxOpens
    /\ owwCalls' = owwCalls + 1
    /\ LET r == Open(opts, env)
       IN IF r.err # NoErr
          THEN /\ last' = [NoCall EXCEPT !.op = "OpenWithWriter",
                                         !.ret = [val |-> "nil", err |-> r.err]]
               /\ instCount' = instCount + 1
               /\ UNCHANGED <<opc, ow>>
          ELSE /\ opc' = [opc EXCEPT ![t] = "oww_load"]
               /\ ow' = [ow EXCEPT ![t] = w]
               /\ UNCHANGED <<last, instCount>>
    /\ UNCHANGED <<tracingEnabled, dbToWriter, tmp, ctxVal, opened,
                   cursor, rowLog>>
    /\ UNCHANGED <<hookVars, openVars>>

\* trace.go:108-112: the call, Open, and the return of Open's error.
OpenWithWriterCall(t, opts, env, w) ==
    /\ opc[t] = "idle"
    /\ owwCalls < MaxOpens
    /\ owwCalls' = owwCalls + 1
    /\ LET r == Open(opts, env)
       IN IF r.err # NoErr
          THEN /\ last' = [NoCall EXCEPT !.op = "OpenWithWriter",
                                         !.ret = [val |-> "nil", err |-> r.err]]
               /\ UNCHANGED <<opc, ow>>
          ELSE /\ opc' = [opc EXCEPT ![t] = "oww_load"]
               /\ ow' = [ow EXCEPT ![t] = w]
               /\ UNCHANGED last
    /\ UNCHANGED <<tracingEnabled, dbToWriter, instCount, tmp, ctxVal, opened,
                   cursor, rowLog>>
    /\ UNCHANGED <<hookVars, openVars>>

\* trace.go:113: instCount++ reads the counter ...
OpenWithWriterLoad(t) ==
    /\ opc[t] = "oww_load"
    /\ tmp' = [tmp EXCEPT ![t] = instCount]
    /\ opc' = [opc EXCEPT ![t] = "oww_store"]
    /\ UNCHANGED <<tracingEnabled, dbToWriter, instCount, ow, ctxVal, opened,
                   owwCalls, last, cursor, rowLog>>
    /\ UNCHANGED <<hookVars, openVars>>

\* The counter written back without the increment.
OpenWithWriterStore_NoInc(t) ==
    /\ opc[t] = "oww_store"
    /\ instCount' = tmp[t]
    /\ opc' = [opc EXCEPT ![t] = "oww_format"]
    /\ UNCHANGED <<tracingEnabled, dbToWriter, ow, tmp, ctxVal, opened,
                   owwCalls, last, cursor, rowLog>>
    /\ UNCHANGED <<hookVars, openVars>>

\* ... and writes it back, one higher.
OpenWithWriterStore(t) ==
    /\ opc[t] = "oww_store"
    /\ instCount' = tmp[t] + 1
    /\ opc' = [opc EXCEPT ![t] = "oww_format"]
    /\ UNCHANGED <<tracingEnabled, dbToWriter, ow, tmp, ctxVal, opened,
                   owwCalls, last, cursor, rowLog>>
    /\ UNCHANGED <<hookVars, openVars>>

\* trace.go:114: ctxVal := fmt.Sprintf("%d", instCount).
OpenWithWriterFormat(t) ==
    /\ opc[t] = "oww_format"
    /\ ctxVal' = [ctxVal EXCEPT ![t] = Itoa(instCount)]
    /\ opc' = [opc EXCEPT ![t] = "oww_register"]
    /\ UNCHANGED <<tracingEnabled, dbToWriter, instCount, ow, tmp, opened,
                   owwCalls, last, cursor, rowLog>>
    /\ UNCHANGED <<hookVars, openVars>>

\* A registration that leaves a token already in the map alone.
Registered_KeepFirst(m, token, w) == IF token \in DOMAIN m THEN m ELSE MapPut(m, token, w)

\* trace.go:115: dbToWriter[ctxVal] = w.
Registered(m, token, w) == MapPut(m, token, w)

\* trace.go:115-117: the registration and the return of the context.
OpenWithWriterRegister(t) ==
    /\ opc[t] = "oww_register"
    /\ dbToWriter' = Registered(dbToWriter, ctxVal[t], ow[t])
    /\ opened' = Append(opened, [ctx |-> WithValue(ctxVal[t]), w |-> ow[t]])
    /\ last' = [NoCall EXCEPT !.op = "OpenWithWriter", !.ctx = WithValue(ctxVal[t]),
                              !.w = ow[t], !.ret = [val |-> "db", err |-> NoErr]]
    /\ opc' = [opc EXCEPT ![t] = "idle"]
    /\ ow' = [ow EXCEPT ![t] = NilWriter]
    /\ tmp' = [tmp EXCEPT ![t] = 0]
    /\ ctxVal' = [ctxVal EXCEPT ![t] = EmptyStr]
    /\ UNCHANGED <<tracingEnabled, instCount, owwCalls, cursor, rowLog>>
    /\ UNCHANGED <<hookVars, openVars>>

(***************************************************************************)
(* traceInterceptor.StmtQueryContext: trace.go:43-63.                      *)
(* The interceptor's methods run only on a handle of the "-trace" driver,  *)
(* which Open selects when tracingEnabled (trace.go:139-142).              *)
(***************************************************************************)
\* trace.go:51: fmt.Sprintf("no writer for key %s", key).
NoWriterLabel(key) == <<"n", "o", " ", "w", "r", "i", "t", "e", "r", " ", "f", "o", "r", " ", "k", "e", "y", " ">> \o key

\* trace.go:57: fmt.Sprintf("unsafe: %s -- %s", safe, query).
UnsafeMsg(safe, query) == Concat(<<<<"u", "n", "s", "a", "f", "e", ":", " ">>, safe, <<" ", "-", "-", " ">>, query>>)

\* trace.go:46, 49: the Writer the context's token resolves to.
QueryWriter(ctx) == IF ctx # NoTokenCtx THEN MapGet(dbToWriter, ctx[1]) ELSE NilWriter

\* trace.go:46-55: the safety label.
QuerySafe(ctx) ==
    IF ctx # NoTokenCtx
    THEN IF QueryWriter(ctx) = NilWriter THEN NoWriterLabel(ctx[1])
         ELSE Safe(QueryWriter(ctx))
    ELSE EmptyStr

\* trace.go:56-58: the Info entries emitted.
QueryAudit(safe, query) ==
    IF safe # EmptyStr /\ ~HasPrefix(query, SELECT_)
    THEN <<[level |-> "info", msg |-> UnsafeMsg(safe, query)]>>
    ELSE <<>>

\* trace.go:62: what StmtQueryContext returns, given what the statement returned.
QueryReturn(out) == out

\* trace.go:43-63.
StmtQueryContext(t, ctx, query, args, out) ==
    /\ tracingEnabled
    /\ opc[t] = "idle"
    /\ ConnFree
    /\ LET safe == QuerySafe(ctx)
           ret == QueryReturn(out)
       IN /\ last' = [op |-> "StmtQueryContext", ctx |-> ctx, query |-> query,
                      args |-> args, under |-> out, underCalls |-> 1,
                      passed |-> <<ctx, args>>, ret |-> ret,
                      w |-> QueryWriter(ctx), safe |-> safe,
                      audit |-> QueryAudit(safe, query),
                      trace |-> <<[level |-> "debug", err |-> out.err, safe |-> safe,
                                   query |-> query, args |-> args]>>]
          /\ cursor' = IF ret.err = NoErr THEN [NoCursor EXCEPT !.open = TRUE]
                       ELSE NoCursor
    /\ rowLog' = <<>>
    /\ UNCHANGED <<tracingEnabled, dbToWriter, instCount, opc, ow, tmp, ctxVal,
                   opened, owwCalls>>
    /\ UNCHANGED <<hookVars, openVars>>

(***************************************************************************)
(* traceInterceptor.StmtExecContext: trace.go:65-85.                       *)
(***************************************************************************)
\* trace.go:68, 71: the Writer the context's token resolves to.
ExecWriter(ctx) == IF ctx # NoTokenCtx THEN MapGet(dbToWriter, ctx[1]) ELSE NilWriter

\* The exec path without the label for a token that has no Writer.
ExecSafe_NoLabel(ctx) ==
    IF ctx # NoTokenCtx THEN Safe(ExecWriter(ctx)) ELSE EmptyStr

\* trace.go:68-77: the safety label.
ExecSafe(ctx) ==
    IF ctx # NoTokenCtx
    THEN IF ExecWriter(ctx) = NilWriter THEN NoWriterLabel(ctx[1])
         ELSE Safe(ExecWriter(ctx))
    ELSE EmptyStr

\* trace.go:78-80: the Info entries emitted.
ExecAudit(safe, query) ==
    IF safe # EmptyStr /\ ~HasPrefix(query, SELECT_)
    THEN <<[level |-> "info", msg |-> UnsafeMsg(safe, query)]>>
    ELSE <<>>

\* StmtExecContext dropping the statement's error.
ExecReturn_DropErr(out) == [out EXCEPT !.err = NoErr]

\* trace.go:84: what StmtExecContext returns, given what the statement returned.
ExecReturn(out) == out

\* trace.go:65-85.
StmtExecContext(t, ctx, query, args, out) ==
    /\ tracingEnabled
    /\ opc[t] = "idle"
    /\ ConnFree
    /\ LET safe == ExecSafe(ctx)
       IN last' = [op |-> "StmtExecContext", ctx |-> ctx, query |-> query,
                   args |-> args, under |-> out, underCalls |-> 1,
                   passed |-> <<ctx, args>>, ret |-> ExecReturn(out),
                   w |-> ExecWriter(ctx), safe |-> safe,
                   audit |-> ExecAudit(safe, query),
                   trace |-> <<[level |-> "debug", err |-> out.err, safe |-> safe,
                                query |-> query, args |-> args]>>]
    /\ cursor' = NoCursor
    /\ rowLog' = <<>>
    /\ UNCHANGED <<tracingEnabled, dbToWriter, instCount, opc, ow, tmp, ctxVal,
                   opened, owwCalls>>
    /\ UNCHANGED <<hookVars, openVars>>

(***************************************************************************)
(* traceInterceptor.RowsNext: trace.go:87-106.                             *)
(***************************************************************************)
\* fmt.Sprintf("%q", val): a string in double quotes with " and \ escaped; a
\* nil value has no %q form.
RECURSIVE Escape(_)
Escape(v) ==
    IF v = <<>> THEN <<>>
    ELSE (IF Head(v) \in {"\"", "\\"} THEN <<"\\", Head(v)>> ELSE <<Head(v)>>)
         \o Escape(Tail(v))

Quote(val) == IF val = NilValue THEN <<"%", "!", "q", "(", "<", "n", "i", "l", ">", ")">>
              ELSE <<"\"">> \o Escape(val[2]) \o <<"\"">>

RECURSIVE Join(_, _)
\* strings.Join(elems, sep)
Join(elems, sep) ==
    IF elems = <<>> THEN <<>>
    ELSE IF Len(elems) = 1 THEN elems[1]
    ELSE elems[1] \o sep \o Join(Tail(elems), sep)

RECURSIVE RenderFrom(_, _)
\* trace.go:97-103: the builder's content after the iterations i, i+1, ...
\* of the loop over dest (i is Go's index plus one).
RenderFrom(dest, i) ==
    IF i > Len(dest) THEN <<>>
    ELSE Quote(dest[i])
         \o (IF i <= Len(dest) - 1 THEN <<" ", "|", " ">> ELSE <<>>)
         \o RenderFrom(dest, i + 1)

Render(dest) == RenderFrom(dest, 1)

\* RowsNext logging on every call, the end-of-data call included.
RowsNextLog_NoEofCheck(err, dest) ==
    <<[level |-> "debug", what |-> "columns", msg |-> Join(Columns, <<" ", "|", " ">>)],
      [level |-> "debug", what |-> "values", msg |-> Render(dest)]>>

\* trace.go:89-105: the Debug entries one RowsNext call emits, given the error
\* rows.Next returned and the content of dest after it.
RowsNextLog(err, dest) ==
    IF err = EOF THEN <<>>
    ELSE <<[level |-> "debug", what |-> "columns", msg |-> Join(Columns, <<" ", "|", " ">>)],
           [level |-> "debug", what |-> "values", msg |-> Render(dest)]>>

\* trace.go:92, 105: what RowsNext returns, given what rows.Next returned.
RowsNextReturn(err) == err

\* rows.Next(dest) of the driver: it copies the next row into dest, or
\* returns io.EOF or another error and leaves dest alone.
\* database/sql stops calling Next once it returned an error.
RowsNext(t, err, row) ==
    /\ tracingEnabled
    /\ opc[t] = "idle"
    /\ cursor.open /\ ~cursor.done
    /\ err = NoErr => Len(cursor.fetched) < MaxRows
    /\ LET dest == IF err = NoErr THEN row ELSE cursor.dest
           ret == RowsNextReturn(err)
       IN /\ cursor' = [cursor EXCEPT
                           !.fetched = IF err = NoErr THEN Append(@, row) ELSE @,
                           !.dest = dest,
                           !.done = (ret # NoErr),
                           !.lastErr = err]
          /\ rowLog' = rowLog \o RowsNextLog(err, dest)
          /\ last' = [NoCall EXCEPT !.op = "RowsNext",
                                    !.under = [val |-> "nil", err |-> err],
                                    !.underCalls = 1,
                                    !.ret = [val |-> "nil", err |-> ret],
                                    !.audit = RowsNextLog(err, dest)]
    /\ UNCHANGED <<tracingEnabled, dbToWriter, instCount, opc, ow, tmp, ctxVal,
                   opened, owwCalls>>
    /\ UNCHANGED <<hookVars, openVars>>

\* rows.Close() before the end of the data. The interceptor does not override
\* RowsClose (trace.go:38-41 embeds sqlmw.NullInterceptor).
RowsClose(t) ==
    /\ tracingEnabled
    /\ opc[t] = "idle"
    /\ cursor.open /\ ~cursor.done
    /\ cursor' = [cursor EXCEPT !.done = TRUE]
    /\ UNCHANGED <<tracingEnabled, dbToWriter, instCount, opc, ow, tmp, ctxVal,
                   opened, owwCalls, last, rowLog>>
    /\ UNCHANGED <<hookVars, openVars>>

----------------------------------------------------------------------------
(***************************************************************************)
(* The specifications.                                                     *)
(***************************************************************************)
\* The calls the threads of T make to the tracing layer: OpenWithWriter, and
\* the interceptor's methods on one traced connection. A thread makes one
\* call at a time.
SqlNext(T) ==
    \E t \in T :
        \/ \E opts \in OpenWithWriterOptions, env \in OpenWithWriterEnvs, w \in Writers \cup {NilWriter} :
              OpenWithWriterCall(t, opts, env, w)
        \/ OpenWithWriterLoad(t)
        \/ OpenWithWriterStore(t)
        \/ OpenWithWriterFormat(t)
        \/ OpenWithWriterRegister(t)
        \/ \E ctx \in Contexts, query \in Statements, args \in Args, out \in QueryOutcomes :
              StmtQueryContext(t, ctx, query, args, out)
        \/ \E ctx \in Contexts, query \in Statements, args \in Args, out \in ExecOutcomes :
              StmtExecContext(t, ctx, query, args, out)
        \/ \E row \in Rows : RowsNext(t, NoErr, row)
        \/ \E err \in {EOF, ErrBadConn} : RowsNext(t, err, cursor.dest)
        \/ RowsClose(t)

OpenNext == \E opts \in DatabaseOptions, env \in OpenEnvs : DoOpen(opts, env)

Init == HooksInit /\ SqlInit /\ OpenInit

Next == HooksNext \/ SqlNext(Threads) \/ OpenNext

Spec == Init /\ [][Next]_vars

\* The hook registry alone.
HooksOnlyInit == Init /\ tracingEnabled = TRUE

HooksSpec == HooksOnlyInit /\ [][HooksNext]_vars

\* The tracing layer alone, its calls made one after another.
SqlSpec == Init /\ [][SqlNext({"t1"})]_vars

\* Open alone.
OpenSpec == Init /\ [][OpenNext]_vars

\* OpenWithWriter called from two threads at once, and statements executed
\* with the contexts in use.
ConcNext ==
    \E t \in Threads :
        \/ \E opts \in OpenWithWriterOptions, env \in OpenWithWriterEnvs, w \in Writers \cup {NilWriter} :
              OpenWithWriterCall(t, opts, env, w)
        \/ OpenWithWriterLoad(t)
        \/ OpenWithWriterStore(t)
        \/ OpenWithWriterFormat(t)
        \/ OpenWithWriterRegister(t)
        \/ \E ctx \in Contexts, out \in ExecOutcomes :
              StmtExecContext(t, ctx, <<"I", "N", "S", "E", "R", "T", " ", "t">>, <<>>, out)

ConcSpec == Init /\ [][ConcNext]_vars

\* The hook registry with callbacks that append, call Attach, or panic, all
\* under "new_event".
CallbackNext ==
    \E t \in Threads :
        \/ Enable(t)
        \/ \E cb \in CallerCallbacks : AttachBegin(t, KindNewEvent, cb)
        \/ AttachLock(t)
        \/ AttachAppend(t)
        \/ \E p \in Payloads : RunBegin(t, KindNewEvent, p)
        \/ CallbacksLock(t)
        \/ CallbacksReturn(t)
        \/ RunInvoke(t)
        \/ RunInvokeReentrant(t)
        \/ CbAttachLock(t)
        \/ CbAttachAppend(t)
        \/ RunInvokePanic(t)
        \/ RunReturn(t)

CallbackSpec == HooksOnlyInit /\ [][CallbackNext]_vars

----------------------------------------------------------------------------
(***************************************************************************)
(* Properties of the hook registry, checked under HooksSpec.               *)
(***************************************************************************)
\* The callbacks a Run invoked, in order.
Invoked(t) == [i \in 1..Len(ran[t]) |-> ran[t][i][1]]

\* Thread t's Run has been through its whole list and is about to return.
RunComplete(t) == pc[t] = "run_loop" /\ idx[t] = Len(cbs[t])

\* C1: while the registry is not enabled, Attach and Run are no-ops: the table
\* stays empty and no callback is invoked, whatever calls were made. The table
\* holds exactly the callbacks of the Attach calls that found the flag set, so
\* a callback attached before Enable() is invoked by no Run after it.
C1_DisabledNoOp ==
    /\ ~enabled =>
          /\ \A k \in Kinds : hookMap[k] = <<>>
          /\ seen = <<>>
          /\ \A t \in Threads : pc[t] = "idle" /\ ran[t] = <<>>
    /\ \A k \in Kinds : hookMap[k] = attached[k]
    /\ \A t \in Threads : \A cb \in Callbacks :
          Count(Invoked(t), cb) <= Count(attached[kind[t]], cb)

\* An Attach and a Run were made before Enable(); after it, a Run of the
\* kind of the dropped Attach went through an empty list.
C1_Witness ==
    /\ enabled
    /\ idleRuns >= 1
    /\ \E t \in Threads : \E d \in dropped :
          /\ RunComplete(t)
          /\ kind[t] = d[1]
          /\ cbs[t] = <<>>
          /\ ran[t] = <<>>
    /\ seen = <<>>

\* C2: a Run invokes the callbacks attached under its kind, each with the
\* Run's payload, in attachment order, and has invoked all of them when it
\* returns: its list is the one attached when it reads the table, it goes
\* through the list from the front, and it returns only at the end of it.
C2_Inv ==
    \A t \in Threads :
        pc[t] = "run_loop" =>
            /\ idx[t] <= Len(cbs[t])
            /\ IsPrefix(cbs[t], attached[kind[t]])
            /\ ran[t] = [i \in 1..idx[t] |-> <<cbs[t][i], data[t]>>]

C2_Act ==
    \A t \in Threads :
        /\ (pc[t] = "callbacks_read" /\ pc'[t] = "run_loop")
              => cbs'[t] = attached[kind[t]]
        /\ (pc[t] = "run_loop" /\ pc'[t] = "idle")
              => ran[t] = [i \in 1..Len(cbs[t]) |-> <<cbs[t][i], data[t]>>]

\* C2: both parts, in every state and at every step of a Run.
C2_AttachOrder == [](C2_Inv) /\ [][C2_Act]_vars

\* Two callbacks were attached under one kind and a Run has invoked both, in
\* that order.
C2_Witness ==
    \E t \in Threads :
        /\ RunComplete(t)
        /\ attached[kind[t]] = <<"cbA", "cbB">>
        /\ ran[t] = << <<"cbA", data[t]>>, <<"cbB", data[t]>> >>

\* C3: Attach does not de-duplicate: a Run made after a callback was attached
\* m times under its kind invokes that callback exactly m times.
C3_NoDedup ==
    \A t \in Threads :
        (~overlap /\ RunComplete(t)) =>
            \A cb \in Callbacks :
                Count(Invoked(t), cb) = Count(attached[kind[t]], cb)

\* The same callback was attached twice and one Run invoked it twice.
C3_Witness ==
    \E t \in Threads :
        /\ ~overlap
        /\ RunComplete(t)
        /\ attached[kind[t]] = <<"cbA", "cbA">>
        /\ Count(Invoked(t), "cbA") = 2
        /\ seen = <<data[t], data[t]>>

\* What the Run calls of log `l`, made one after another, make "cbA" append.
RECURSIVE ExpectedSeen(_)
ExpectedSeen(l) ==
    IF l = <<>> THEN <<>>
    ELSE LET r == Head(l)
             m == Count(SubSeq(attached[r.kind], 1, r.n), "cbA")
         IN [j \in 1..m |-> r.data] \o ExpectedSeen(Tail(l))

\* C4: Run does not consume or alter the callback lists: the table is what
\* the Attach calls made it, and successive Runs each invoke the callbacks
\* attached at their call, so that with one appending callback under a kind
\* the sequence is the Runs' payloads in call order.
C4_RunKeepsLists ==
    /\ \A k \in Kinds : hookMap[k] = attached[k]
    /\ \A i \in 1..Len(runLog) : runLog[i].n <= Len(attached[runLog[i].kind])
    /\ ~overlap =>
          /\ IsPrefix(seen, ExpectedSeen(runLog))
          /\ (\A t \in Threads : pc[t] = "idle") => seen = ExpectedSeen(runLog)
          /\ ( /\ \A t \in Threads : pc[t] = "idle"
               /\ attached[KindNewEvent] = <<"cbA">>
               /\ \A i \in 1..Len(runLog) :
                     runLog[i].kind = KindNewEvent /\ runLog[i].n = 1 )
             => seen = [i \in 1..Len(runLog) |-> runLog[i].data]

\* The scenario: one appending callback under "new_event", then three Runs.
C4_Witness ==
    /\ ~overlap
    /\ \A t \in Threads : pc[t] = "idle"
    /\ hookMap[KindNewEvent] = <<"cbA">>
    /\ Len(runLog) = 3
    /\ \A i \in 1..3 : runLog[i].kind = KindNewEvent /\ runLog[i].n = 1
    /\ seen = <<"X", "Y", "X">>

(***************************************************************************)
(* Properties of the tracing layer, checked under SqlSpec and OpenSpec.    *)
(***************************************************************************)
IsStmtCall == last.op \in {"StmtQueryContext", "StmtExecContext"}

\* C5: successive OpenWithWriter calls mint pairwise distinct tokens; a
\* statement executed with the context a call returned resolves the Writer
\* given to that call, also after later calls; a statement executed with a
\* context that carries no token resolves no Writer and gets the empty label.
C5_TokenResolvesWriter ==
    /\ \A i, j \in 1..Len(opened) : i # j => opened[i].ctx # opened[j].ctx
    /\ \A i \in 1..Len(opened) :
          (IsStmtCall /\ last.ctx = opened[i].ctx) => last.w = opened[i].w
    /\ (IsStmtCall /\ last.ctx = NoTokenCtx)
          => last.w = NilWriter /\ last.safe = EmptyStr

\* Two calls registered different Writers and a later query with the first
\* call's context resolved the first call's Writer.
C5_Witness ==
    /\ Len(opened) = 2
    /\ opened[1].w = "w1" /\ opened[2].w = "w2"
    /\ last.op = "StmtQueryContext"
    /\ last.ctx = opened[1].ctx
    /\ last.w = "w1"

\* C6: the unsafe-write audit entry is emitted only when the call's token is
\* registered in the token -> Writer map and the statement does not begin
\* with "SELECT ".
C6_AuditOnlyWithWriter ==
    (IsStmtCall /\ last.audit # <<>>) =>
        /\ last.ctx # NoTokenCtx
        /\ last.ctx[1] \in DOMAIN dbToWriter
        /\ ~HasPrefix(last.query, SELECT_)

\* C7: a statement whose token resolves to a registered Writer and whose text
\* does not begin with "SELECT " gets an audit entry naming the Writer's
\* description and the statement, whatever the description.
C7_AuditWithWriter ==
    ( /\ IsStmtCall
      /\ last.ctx # NoTokenCtx
      /\ MapGet(dbToWriter, last.ctx[1]) \in Writers
      /\ ~HasPrefix(last.query, SELECT_) )
    => last.audit = <<[level |-> "info",
                       msg |-> UnsafeMsg(Safe(MapGet(dbToWriter, last.ctx[1])),
                                         last.query)]>>

\* C8: Open of a descriptor that is neither embedded nor networked returns
\* the configuration error and no handle and does not call sql.Open,
\* whatever the trace toggle and the pool settings.
C8_UnknownSchemeFails ==
    ( /\ lastOpen.called
      /\ ~IsSQLite(lastOpen.opts.ConnectionString)
      /\ ~IsPostgres(lastOpen.opts.ConnectionString) )
    => /\ lastOpen.out.err = <<"invalid database connection string %q",
                               lastOpen.opts.ConnectionString>>
       /\ lastOpen.out.db = NoDB
       /\ lastOpen.out.sqlOpens = 0

\* Open was called with "mysql://h" while tracing is on, and failed.
C8_Witness ==
    /\ lastOpen.called
    /\ tracingEnabled
    /\ lastOpen.opts.ConnectionString = <<"m", "y", "s", "q", "l", ":", "/", "/", "h">>
    /\ lastOpen.opts.Pool = <<3, 1, 60>>
    /\ lastOpen.out.err # NoErr

\* The row-value entries of the log, in order.
ValueEntries == SelectSeq(rowLog, LAMBDA e : e.what = "values")

\* C9: an iteration of n successful fetches, ended or not by the end-of-data
\* call, has emitted exactly n row-value entries, the i-th one showing the
\* i-th fetched row: the end-of-data call emits nothing.
C9_RowLog ==
    (cursor.open /\ cursor.lastErr \in {NoErr, EOF}) =>
        /\ Len(rowLog) = 2 * Len(cursor.fetched)
        /\ Len(ValueEntries) = Len(cursor.fetched)
        /\ \A i \in 1..Len(cursor.fetched) :
              ValueEntries[i].msg = Render(cursor.fetched[i])

\* Two different rows were fetched and the next call returned io.EOF.
C9_Witness ==
    /\ cursor.open
    /\ cursor.lastErr = EOF
    /\ Len(cursor.fetched) = 2
    /\ cursor.fetched[1] # cursor.fetched[2]
    /\ last.op = "RowsNext"
    /\ Len(ValueEntries) = 2

\* C10: StmtQueryContext, StmtExecContext and RowsNext call the underlying
\* operation once, with the context and arguments they were given, and return
\* exactly what it returned, error included.
C10_Observational ==
    /\ last.op \in {"StmtQueryContext", "StmtExecContext", "RowsNext"} =>
          /\ last.underCalls = 1
          /\ last.ret = last.under
    /\ IsStmtCall => last.passed = <<last.ctx, last.args>>

\* A statement executed with an unregistered token failed in the driver and
\* the interceptor returned the driver's error.
C10_Witness ==
    /\ last.op = "StmtExecContext"
    /\ last.ctx # NoTokenCtx
    /\ last.ctx[1] \notin DOMAIN dbToWriter
    /\ last.under.err = ErrBadConn
    /\ last.ret.err = ErrBadConn

----------------------------------------------------------------------------
(***************************************************************************)
(* Properties of OpenWithWriter called from two threads, under ConcSpec.   *)
(***************************************************************************)
\* C11: the token -> Writer map is append-only: no step removes an entry, and
\* no step binds a token registered with a Writer to another Writer.
C11_AppendOnly ==
    [][\A k \in DOMAIN dbToWriter :
          dbToWriter[k] \in Writers
             => k \in DOMAIN dbToWriter' /\ dbToWriter'[k] = dbToWriter[k]]_vars

\* The index of the last completed OpenWithWriter call that returned `ctx`.
LastOpened(ctx) ==
    CHOOSE i \in 1..Len(opened) :
        /\ opened[i].ctx = ctx
        /\ \A j \in (i + 1)..Len(opened) : opened[j].ctx # ctx

\* C17: no entry of the map is ever removed, but its Writer is the one of the
\* last call that returned the token: when two calls returned the same token,
\* the later registration has replaced the Writer of the earlier call, and a
\* statement executed with the token resolves the later Writer.
C17_LaterReplaces ==
    /\ DOMAIN dbToWriter = {opened[i].ctx[1] : i \in 1..Len(opened)}
    /\ \A i \in 1..Len(opened) :
          dbToWriter[opened[i].ctx[1]] = opened[LastOpened(opened[i].ctx)].w
    /\ \A i \in 1..Len(opened) :
          (last.op = "StmtExecContext" /\ last.ctx = opened[i].ctx)
             => last.w = opened[LastOpened(opened[i].ctx)].w

\* Two interleaved calls registered different Writers and returned the same
\* token; the map holds the later call's Writer under it, and a statement
\* executed with the first call's context resolved the second call's Writer.
C17_Witness ==
    /\ Len(opened) = 2
    /\ opened[1].ctx = opened[2].ctx
    /\ opened[1].w = "w1" /\ opened[2].w = "w2"
    /\ dbToWriter[opened[1].ctx[1]] = "w2"
    /\ last.op = "StmtExecContext"
    /\ last.ctx = opened[1].ctx
    /\ last.w = "w2"

----------------------------------------------------------------------------
(***************************************************************************)
(* Further properties of Open, under OpenSpec.                             *)
(***************************************************************************)
\* C12: a handle Open returned has the pool settings applied if and only if
\* the descriptor selects the networked backend, whatever the trace toggle.
C12_PoolOnlyNetworked ==
    (lastOpen.called /\ lastOpen.out.err = NoErr) =>
        ( lastOpen.out.db.pool # PoolUnset
            <=> IsPostgres(lastOpen.opts.ConnectionString) )

----------------------------------------------------------------------------
(***************************************************************************)
(* Further properties of the hook registry, under HooksSpec.               *)
(***************************************************************************)
\* C13: Enable() is irreversible and idempotent: no step clears the flag, and
\* an Enable() made while the flag is set changes nothing of the registry:
\* the flag, every kind's callback list and the mutex stay as they are.
C13_EnableOnce ==
    [][ /\ enabled => enabled'
        /\ (enabled /\ \E t \in Threads : Enable(t))
              => UNCHANGED <<enabled, hookMap, hookMu>> ]_vars

\* The flag is set, both kinds hold callbacks, and every thread is free to
\* call Enable() again.
C13_Witness ==
    /\ enabled
    /\ hookMap[KindNewEvent] # <<>>
    /\ hookMap["other_kind"] # <<>>
    /\ \A t \in Threads : pc[t] = "idle"

\* C20: kinds are isolated: the callbacks a Run of kind K has invoked are, one
\* by one, the callbacks attached under K, so a callback attached only under
\* another kind is not among them.
C20_KindIsolation ==
    \A t \in Threads :
        /\ \A i \in 1..Len(ran[t]) :
              i <= Len(attached[kind[t]]) /\ ran[t][i][1] = attached[kind[t]][i]
        /\ \A cb \in Callbacks :
              (\A i \in 1..Len(attached[kind[t]]) : attached[kind[t]][i] # cb)
                 => \A i \in 1..Len(ran[t]) : ran[t][i][1] # cb

\* The appending callback is stored under "other_kind" only, and a Run of
\* "new_event" has gone through its list without invoking it.
C20_Witness ==
    \E t \in Threads :
        /\ RunComplete(t)
        /\ kind[t] = KindNewEvent
        /\ hookMap["other_kind"] = <<"cbA">>
        /\ hookMap[KindNewEvent] = <<"cbB">>
        /\ Invoked(t) = <<"cbB">>
        /\ seen = <<>>

----------------------------------------------------------------------------
(***************************************************************************)
(* Properties of Run with callbacks that call Attach or panic, under       *)
(* CallbackSpec.                                                           *)
(***************************************************************************)
\* Thread t is inside the loop of Run, a callback running or about to.
InLoop(t) == pc[t] \in {"run_loop", "cb_attach_lock", "cb_attach_append"}

\* C14: the mutex is held only across the append of Attach and the read of
\* callbacks: a thread whose Run is at a callback does not hold it, neither
\* when the callback starts nor when the callback calls Attach, so that
\* Attach is not waiting for its own thread, and whoever holds the mutex is
\* one step from releasing it.
C14_NoLockInCallback ==
    \A t \in Threads :
        /\ pc[t] \in {"run_loop", "cb_attach_lock"} => hookMu # t
        /\ hookMu = t => pc[t] \in {"attach_append", "callbacks_read", "cb_attach_append"}

\* A callback of t's Run called Attach, got the mutex and returned: the list
\* has grown past the one the Run goes through, and the mutex is free.
C14_Witness ==
    \E t \in Threads :
        /\ pc[t] = "run_loop"
        /\ idx[t] >= 1
        /\ cbs[t][idx[t]] = ReentrantCallback
        /\ Len(hookMap[KindNewEvent]) > Len(cbs[t])
        /\ hookMu = NoThread

C15_Inv ==
    \A t \in Threads :
        InLoop(t) =>
            /\ IsPrefix(cbs[t], hookMap[kind[t]])
            /\ Len(ran[t]) <= Len(cbs[t])
            /\ Invoked(t) = SubSeq(cbs[t], 1, Len(ran[t]))

C15_Act ==
    /\ \A k \in Kinds : IsPrefix(hookMap[k], hookMap'[k])
    /\ \A t \in Threads :
          /\ (pc[t] = "callbacks_read" /\ pc'[t] = "run_loop")
                => cbs'[t] = hookMap[kind[t]]
          /\ (InLoop(t) /\ InLoop(t)') => cbs'[t] = cbs[t]
          /\ (pc[t] = "run_loop" /\ pc'[t] = "idle" /\ fault'[t] = NoFault)
                => Invoked(t) = cbs[t]

\* C15: Run goes through the list as it was when callbacks() read it: a
\* callback attached later, by another thread or by a callback of this Run,
\* is not invoked by it, the callbacks of the list are invoked once each in
\* order, and since lists only grow by appends and a Run reads the whole
\* list, a Run that starts after an Attach has it in its list.
C15_Snapshot == [](C15_Inv) /\ [][C15_Act]_vars

\* A Run has invoked every callback of its list, the first of which attached
\* another callback, and that one was not invoked: the appending callback was
\* attached by the Run's own callback and appended nothing.
C15_Witness ==
    \E t \in Threads :
        /\ RunComplete(t)
        /\ cbs[t] = <<ReentrantCallback>>
        /\ hookMap[KindNewEvent] = <<ReentrantCallback, "cbA">>
        /\ Invoked(t) = <<ReentrantCallback>>
        /\ seen = <<>>

C16_Inv == \A t \in Threads : pc[t] = "idle" => hookMu # t

C16_Act ==
    \A t \in Threads :
        ( /\ pc[t] = "run_loop"
          /\ idx[t] < Len(cbs[t])
          /\ cbs[t][idx[t] + 1] = FaultingCallback
          /\ <<pc[t], idx[t], ran[t]>>' # <<pc[t], idx[t], ran[t]>> )
        => /\ fault'[t] = <<"panic", data[t]>>
           /\ pc'[t] = "idle"
           /\ seen' = seen
           /\ hookMap' = hookMap
           /\ hookMu' = hookMu

\* C16: when the callback Run is at panics, Run ends there: the panic
\* reaches the caller with the callback's value, no further callback of the
\* list is invoked, the lists are as they were, and the mutex is not held by
\* a thread that has left the registry.
C16_FailFast == [](C16_Inv) /\ [][C16_Act]_vars

\* A Run of payload "Y" went through <<cbPanic, cbA>>: its caller got the
\* panic, the appending callback after it was not invoked, and the same
\* thread then called Attach and holds the mutex.
C16_Witness ==
    \E t \in Threads :
        /\ fault[t] = <<"panic", "Y">>
        /\ hookMap[KindNewEvent] = <<FaultingCallback, "cbA">>
        /\ seen = <<>>
        /\ pc[t] = "attach_append"
        /\ hookMu = t

----------------------------------------------------------------------------
(***************************************************************************)
(* Further properties of the interceptor, under SqlSpec.                   *)
(***************************************************************************)
\* s ends with suffix.
HasSuffix(s, suffix) ==
    Len(s) >= Len(suffix) /\ SubSeq(s, Len(s) - Len(suffix) + 1, Len(s)) = suffix

\* C18: the safety label of a statement execution, on the query path and on
\* the exec path alike: empty when the context has no token; "no writer for
\* key <token>", which is not empty and ends with the token, when the token
\* has no Writer in the map; the Writer's description when it has one.
C18_SafetyLabel ==
    IsStmtCall =>
        /\ last.ctx = NoTokenCtx => last.safe = EmptyStr
        /\ (last.ctx # NoTokenCtx /\ MapGet(dbToWriter, last.ctx[1]) = NilWriter)
              => /\ last.safe = <<"n", "o", " ", "w", "r", "i", "t", "e", "r", " ",
                                  "f", "o", "r", " ", "k", "e", "y", " ">> \o last.ctx[1]
                 /\ last.safe # EmptyStr
                 /\ HasSuffix(last.safe, last.ctx[1])
        /\ (last.ctx # NoTokenCtx /\ MapGet(dbToWriter, last.ctx[1]) \in Writers)
              => last.safe = Safe(dbToWriter[last.ctx[1]])

\* A statement went down the exec path with the token "2" while no
\* OpenWithWriter call had registered it, and got the "no writer" label.
C18_Witness ==
    /\ last.op = "StmtExecContext"
    /\ last.ctx = WithValue(<<"2">>)
    /\ <<"2">> \notin DOMAIN dbToWriter
    /\ last.safe = <<"n", "o", " ", "w", "r", "i", "t", "e", "r", " ",
                     "f", "o", "r", " ", "k", "e", "y", " ", "2">>

\* C19: a RowsNext call whose fetch failed with an error other than io.EOF
\* emits no log entry and returns that error.
C19_NoLogOnError ==
    (last.op = "RowsNext" /\ last.under.err \notin {NoErr, EOF})
        => /\ last.audit = <<>>
           /\ last.ret.err = last.under.err

----------------------------------------------------------------------------
(***************************************************************************)
(* OpenWithWriter when Open fails, under SqlSpec.                          *)
(***************************************************************************)
\* The errors Open returns for the descriptors OpenWithWriter is called with.
OpenErrors ==
    {Open(o, e).err : o \in OpenWithWriterOptions, e \in OpenWithWriterEnvs} \ {NoErr}

\* The most recent call of the tracing layer is an OpenWithWriter that failed.
FailedOpenWithWriter == last.op = "OpenWithWriter" /\ last.ret.err # NoErr

C21_Inv ==
    /\ FailedOpenWithWriter =>
          /\ last.ret.val = "nil"
          /\ last.ctx = NoTokenCtx
          /\ last.ret.err \in OpenErrors
    /\ instCount <= Len(opened) + Cardinality({t \in Threads : opc[t] # "idle"})
    /\ DOMAIN dbToWriter = {opened[i].ctx[1] : i \in 1..Len(opened)}

C21_Act ==
    (owwCalls' = owwCalls + 1 /\ opc' = opc)
        => /\ FailedOpenWithWriter'
           /\ instCount' = instCount
           /\ dbToWriter' = dbToWriter
           /\ opened' = opened

\* C21: an OpenWithWriter whose Open fails returns no handle and no context
\* with Open's error, and leaves the token counter and the token -> Writer
\* map as they were: the counter counts the successful calls only, and the
\* map holds the tokens those calls returned and no other.
C21_FailedOpenChangesNothing == [](C21_Inv) /\ [][C21_Act]_vars

\* After one successful call, a call for a malformed embedded descriptor
\* failed with the error of ParseFileURI: the counter is still 1 and the map
\* still has the one entry.
C21_Witness ==
    /\ FailedOpenWithWriter
    /\ last.ret.err = <<"ParseFileURI: %w", <<"malformed file URI">>>>
    /\ owwCalls = 2
    /\ Len(opened) = 1
    /\ instCount = 1
    /\ DOMAIN dbToWriter = {<<"1">>}

====
